---- MODULE Spec2Model ----
(***************************************************************************)
(* Model of the kairo documentation link checkers:                         *)
(*   check_links.py   (class LinkChecker and its main)                     *)
(*   check_anchors.py (header_to_anchor, check_anchor_links and its main)  *)
(*                                                                         *)
(* Python strings are sequences of one-character strings, so that          *)
(* str.split, str.startswith, str.replace and the regular expressions of   *)
(* the two scripts are computed character by character.                    *)
(***************************************************************************)
EXTENDS Integers, Sequences, FiniteSets, TLC

----------------------------------------------------------------------------
(* Characters and the str methods the scripts use *)

NL == "\n"

\* the backtick character (SANY has no string literal for it)
BQ == "BACKTICK"

WS == {" ", "\t"}

LowerLetters ==
  <<"a","b","c","d","e","f","g","h","i","j","k","l","m",
    "n","o","p","q","r","s","t","u","v","w","x","y","z">>

UpperLetters ==
  <<"A","B","C","D","E","F","G","H","I","J","K","L","M",
    "N","O","P","Q","R","S","T","U","V","W","X","Y","Z">>

Digits == {"0","1","2","3","4","5","6","7","8","9"}

\* the class [a-z0-9]
AlnumLower == {LowerLetters[i] : i \in 1..26} \cup Digits

\* str.lower() on one character
LowerChar(c) ==
  IF \E i \in 1..26 : UpperLetters[i] = c
  THEN LowerLetters[CHOOSE i \in 1..26 : UpperLetters[i] = c]
  ELSE c

Lower(s) == [i \in 1..Len(s) |-> LowerChar(s[i])]

StartsWith(s, p) == Len(s) >= Len(p) /\ SubSeq(s, 1, Len(p)) = p

EndsWith(s, p) == Len(s) >= Len(p) /\ SubSeq(s, Len(s) - Len(p) + 1, Len(s)) = p

\* p occurs in s (the Python test: p in s)
Contains(s, p) == \E i \in 1..(Len(s) - Len(p) + 1) : SubSeq(s, i, i + Len(p) - 1) = p

RECURSIVE LStripSet(_, _)
LStripSet(s, cs) ==
  IF s # <<>> /\ Head(s) \in cs THEN LStripSet(Tail(s), cs) ELSE s

RECURSIVE RStripSet(_, _)
RStripSet(s, cs) ==
  IF s # <<>> /\ s[Len(s)] \in cs THEN RStripSet(SubSeq(s, 1, Len(s) - 1), cs) ELSE s

\* str.strip()
Strip(s) == RStripSet(LStripSet(s, WS \cup {NL}), WS \cup {NL})

\* str.split(c): the parts between the occurrences of the character c
RECURSIVE Split(_, _)
Split(s, c) ==
  IF \E i \in 1..Len(s) : s[i] = c
  THEN LET i == CHOOSE k \in 1..Len(s) : s[k] = c /\ \A m \in 1..(k - 1) : s[m] # c
       IN <<SubSeq(s, 1, i - 1)>> \o Split(SubSeq(s, i + 1, Len(s)), c)
  ELSE <<s>>

\* str.split(c, 1): at most one split
Split1(s, c) ==
  IF \E i \in 1..Len(s) : s[i] = c
  THEN LET i == CHOOSE k \in 1..Len(s) : s[k] = c /\ \A m \in 1..(k - 1) : s[m] # c
       IN <<SubSeq(s, 1, i - 1), SubSeq(s, i + 1, Len(s))>>
  ELSE <<s>>

\* str.replace(old, ""): every non-overlapping occurrence of old removed, left to right
RECURSIVE RemoveAll(_, _)
RemoveAll(s, old) ==
  IF s = <<>> THEN <<>>
  ELSE IF StartsWith(s, old) THEN RemoveAll(SubSeq(s, Len(old) + 1, Len(s)), old)
  ELSE <<Head(s)>> \o RemoveAll(Tail(s), old)

\* "sep".join(parts)
RECURSIVE Join(_, _)
Join(parts, sep) ==
  IF parts = <<>> THEN <<>>
  ELSE IF Len(parts) = 1 THEN parts[1]
  ELSE parts[1] \o sep \o Join(Tail(parts), sep)

----------------------------------------------------------------------------
(* Heading scanners *)

\* check_links.py: the anchor extract_headings registers for one stripped
\* heading line (a line that starts with '#')
HeadingAnchor(line) ==
  LET heading_text == LStripSet(LStripSet(line, {"#"}), WS)
      lowered == Lower(heading_text)
      dashed == [i \in 1..Len(lowered) |-> IF lowered[i] = " " THEN "-" ELSE lowered[i]]
  IN SelectSeq(dashed, LAMBDA c : c \in AlnumLower \cup {"-"})

\* check_links.py: LinkChecker.extract_headings, the set of anchors of a content
extract_headings(content) ==
  LET lines == Split(content, NL)
  IN { HeadingAnchor(Strip(lines[i])) :
         i \in { k \in 1..Len(lines) : StartsWith(Strip(lines[k]), <<"#">>) } }

\* re.sub(r'^#+\s+', '', header): the leading run of '#' and the whitespace
\* after it, removed only when at least one whitespace follows the run
StripHashes(header) ==
  LET rest == LStripSet(header, {"#"})
  IN IF Len(rest) < Len(header) /\ rest # <<>> /\ Head(rest) \in WS
     THEN LStripSet(rest, WS)
     ELSE header

\* re.sub of the pattern BQ ([^BQ]+) BQ by group 1, BQ the backtick: each backtick
\* pair with a non-empty inside is replaced by its inside, scanning left to right
RECURSIVE UnwrapCode(_)
UnwrapCode(s) ==
  IF s = <<>> THEN <<>>
  ELSE IF Head(s) = BQ /\ \E q \in 3..Len(s) : s[q] = BQ /\ s[2] # BQ
  THEN LET q == CHOOSE k \in 3..Len(s) : s[k] = BQ /\ \A m \in 2..(k - 1) : s[m] # BQ
       IN SubSeq(s, 2, q - 1) \o UnwrapCode(SubSeq(s, q + 1, Len(s)))
  ELSE <<Head(s)>> \o UnwrapCode(Tail(s))

\* re.sub(r'[^a-z0-9]+', '-', s): every maximal run outside [a-z0-9] becomes one hyphen
RECURSIVE HyphenateRuns(_)
HyphenateRuns(s) ==
  IF s = <<>> THEN <<>>
  ELSE IF Head(s) \in AlnumLower THEN <<Head(s)>> \o HyphenateRuns(Tail(s))
  ELSE <<"-">> \o HyphenateRuns(LStripSet(s, {c \in {s[i] : i \in 1..Len(s)} : c \notin AlnumLower}))

\* check_anchors.py: header_to_anchor
header_to_anchor(header) ==
  LET clean1 == StripHashes(header)
      clean2 == UnwrapCode(clean1)
      clean3 == SelectSeq(clean2, LAMBDA c : c \notin {"<", ">", "(", ")", "{", "}", "[", "]"})
      anchor1 == Strip(Lower(clean3))
      anchor2 == HyphenateRuns(anchor1)
  IN RStripSet(LStripSet(anchor2, {"-"}), {"-"})

\* check_anchors.py: extract_headers_from_file, the stripped heading lines in file order
extract_headers(content) ==
  LET lines == Split(content, NL)
      stripped == [i \in 1..Len(lines) |-> Strip(lines[i])]
  IN SelectSeq(stripped, LAMBDA l : StartsWith(l, <<"#">>))

\* check_anchors.py: the anchors registered for a file, anchors = [header_to_anchor(h) ...]
file_anchors(content) ==
  LET headers == extract_headers(content)
  IN [i \in 1..Len(headers) |-> header_to_anchor(headers[i])]

----------------------------------------------------------------------------
(* The documentation tree.  A path is the string of the file's path        *)
(* relative to the docs root.                                              *)

MD == <<".", "m", "d">>

INDEX_MD == <<"i", "n", "d", "e", "x", ".", "m", "d">>

P_INDEX == <<"i", "n", "d", "e", "x", ".", "m", "d">>

P_GINDEX == <<"g", "/", "i", "n", "d", "e", "x", ".", "m", "d">>

P_GS == <<"g", "/", "s", ".", "m", "d">>

P_GSMD == <<"g", "/", "s", ".", "m", "d", ".", "m", "d">>

P_PNG == <<"l", ".", "p", "n", "g">>

\* the markdown files a tree may hold
MdPaths == {P_INDEX, P_GINDEX, P_GS, P_GSMD}

\* every file a tree may hold
AllPaths == MdPaths \cup {P_PNG}

\* index.md:
\*     # Top
\*     ## A & B
\*     [h](#top) [c](#a-b) [m](#zz) [r](/) [d](/g/) [p](/l.png) [s](/g/s#one) [n](/nope) [e](https://x.io)
C_INDEX ==
  <<"#", " ", "T", "o", "p", NL, "#", "#", " ", "A", " ", "&", " ", "B", NL, "[", "h", "]",
  "(", "#", "t", "o", "p", ")", " ", "[", "c", "]", "(", "#", "a", "-", "b", ")", " ",
  "[", "m", "]", "(", "#", "z", "z", ")", " ", "[", "r", "]", "(", "/", ")", " ", "[",
  "d", "]", "(", "/", "g", "/", ")", " ", "[", "p", "]", "(", "/", "l", ".", "p", "n",
  "g", ")", " ", "[", "s", "]", "(", "/", "g", "/", "s", "#", "o", "n", "e", ")", " ",
  "[", "n", "]", "(", "/", "n", "o", "p", "e", ")", " ", "[", "e", "]", "(", "h", "t",
  "t", "p", "s", ":", "/", "/", "x", ".", "i", "o", ")">>

\* g/index.md:
\*     # G
\*     [u](../index.md#top) [k](./) [v](./s#two) [e](https://x.io) [w](http://y.io) [e](https://x.io)
C_GINDEX ==
  <<"#", " ", "G", NL, "[", "u", "]", "(", ".", ".", "/", "i", "n", "d", "e", "x", ".",
  "m", "d", "#", "t", "o", "p", ")", " ", "[", "k", "]", "(", ".", "/", ")", " ", "[",
  "v", "]", "(", ".", "/", "s", "#", "t", "w", "o", ")", " ", "[", "e", "]", "(", "h",
  "t", "t", "p", "s", ":", "/", "/", "x", ".", "i", "o", ")", " ", "[", "w", "]", "(",
  "h", "t", "t", "p", ":", "/", "/", "y", ".", "i", "o", ")", " ", "[", "e", "]", "(",
  "h", "t", "t", "p", "s", ":", "/", "/", "x", ".", "i", "o", ")">>

\* g/s.md:
\*     ## One
\*     [o](#one) [t](/g/s#two) [e](https://x.io)
C_GS ==
  <<"#", "#", " ", "O", "n", "e", NL, "[", "o", "]", "(", "#", "o", "n", "e", ")", " ",
  "[", "t", "]", "(", "/", "g", "/", "s", "#", "t", "w", "o", ")", " ", "[", "e", "]",
  "(", "h", "t", "t", "p", "s", ":", "/", "/", "x", ".", "i", "o", ")">>

\* g/s.md.md:
\*     ## Two
\*     f[i](a, b) [z](foo) (backtick)[y](/no)(backtick) [q](/g/s#two) [w](http://y.io)
C_GSMD ==
  <<"#", "#", " ", "T", "w", "o", NL, "f", "[", "i", "]", "(", "a", ",", " ", "b", ")",
  " ", "[", "z", "]", "(", "f", "o", "o", ")", " ", BQ, "[", "y", "]", "(", "/", "n",
  "o", ")", BQ, " ", "[", "q", "]", "(", "/", "g", "/", "s", "#", "t", "w", "o", ")",
  " ", "[", "w", "]", "(", "h", "t", "t", "p", ":", "/", "/", "y", ".", "i", "o", ")">>

\* the text of a file of the tree
FileContent(path) ==
  CASE path = P_INDEX -> C_INDEX
    [] path = P_GINDEX -> C_GINDEX
    [] path = P_GS -> C_GS
    [] path = P_GSMD -> C_GSMD
    [] OTHER -> <<>>

\* pathlib: the components of a path; empty and '.' components are dropped
Components(path) ==
  SelectSeq(Split(path, "/"), LAMBDA c : c # <<>> /\ c # <<".">>)

Front(s) == SubSeq(s, 1, Len(s) - 1)

\* Path.resolve(): '..' components applied; a '..' that leaves the docs root is kept
RECURSIVE Resolve(_, _)
Resolve(done, rest) ==
  IF rest = <<>> THEN done
  ELSE IF Head(rest) = <<".", ".">>
  THEN IF done = <<>> \/ done[Len(done)] = <<".", ".">>
       THEN Resolve(Append(done, Head(rest)), Tail(rest))
       ELSE Resolve(Front(done), Tail(rest))
  ELSE Resolve(Append(done, Head(rest)), Tail(rest))

\* the path string of a list of components
PathOf(comps) == Join(comps, <<"/">>)

IsFile(fs, comps) == \E f \in fs : Components(f) = comps

IsDir(fs, comps) ==
  \/ comps = <<>>
  \/ \E f \in fs : LET fc == Components(f)
                   IN Len(fc) > Len(comps) /\ SubSeq(fc, 1, Len(comps)) = comps

\* the operating system following the components rest from the directory cur;
\* nothing outside the docs root is part of the tree
RECURSIVE Walk(_, _, _)
Walk(fs, cur, rest) ==
  IF rest = <<>> THEN IsFile(fs, cur) \/ IsDir(fs, cur)
  ELSE IF Head(rest) = <<".", ".">>
  THEN IsDir(fs, cur) /\ cur # <<>> /\ Walk(fs, Front(cur), Tail(rest))
  ELSE IsDir(fs, cur) /\ Walk(fs, Append(cur, Head(rest)), Tail(rest))

\* Path.exists() of docs_root / comps
PathExists(fs, comps) == Walk(fs, <<>>, comps)

\* find_markdown_files: docs_root.rglob('*.md')
find_markdown_files(fs) == { f \in fs : EndsWith(f, MD) }

----------------------------------------------------------------------------
(* check_links.py: LinkChecker *)

\* the match of  (?<!BQ)\[([^\]]*)\]\(([^)]+)\)(?!BQ)  that starts at position p,
\* BQ the backtick: the text ends at the first ']' and the link at the first ')'
FirstAt(s, from, c) ==
  IF \E k \in from..Len(s) : s[k] = c
  THEN CHOOSE k \in from..Len(s) : s[k] = c /\ \A m \in from..(k - 1) : s[m] # c
  ELSE 0

LinkMatch(s, p) ==
  LET close == FirstAt(s, p + 1, "]")
      paren == IF close = 0 THEN 0 ELSE FirstAt(s, close + 2, ")")
      ok == /\ s[p] = "["
            /\ (p = 1 \/ s[p - 1] # BQ)
            /\ close # 0
            /\ close + 1 <= Len(s)
            /\ s[close + 1] = "("
            /\ paren > close + 2
            /\ (paren = Len(s) \/ s[paren + 1] # BQ)
  IN [ok |-> ok, stop |-> paren,
      text |-> IF ok THEN SubSeq(s, p + 1, close - 1) ELSE <<>>,
      link |-> IF ok THEN SubSeq(s, close + 2, paren - 1) ELSE <<>>]

\* re.findall: the matches from position p on, from left to right, none
\* overlapping; a match starts at a '[', so the scan goes from one '[' to the next
RECURSIVE FindLinks(_, _)
FindLinks(s, p) ==
  LET q == FirstAt(s, p, "[")
  IN IF q = 0 THEN <<>>
     ELSE LET m == LinkMatch(s, q)
          IN IF m.ok
             THEN <<[text |-> m.text, link |-> m.link]>> \o FindLinks(s, m.stop + 1)
             ELSE FindLinks(s, q + 1)

HTTP == <<"h", "t", "t", "p">>

HTTP_PREFIX == <<"h", "t", "t", "p", ":", "/", "/">>

HTTPS_PREFIX == <<"h", "t", "t", "p", "s", ":", "/", "/">>

\* the two filters of extract_links: True when the match is kept
KeepLink(link) ==
  /\ ~ ( /\ Contains(link, <<",", " ">>)
         /\ ~ \/ StartsWith(link, HTTP_PREFIX)
              \/ StartsWith(link, HTTPS_PREFIX)
              \/ StartsWith(link, <<"/">>)
              \/ StartsWith(link, <<"#">>)
              \/ StartsWith(link, <<".", "/">>) )
  /\ ~ ( /\ ~ \/ Contains(link, <<"/">>)
              \/ Contains(link, <<"#">>)
              \/ Contains(link, <<".">>)
              \/ Contains(link, HTTP)
         /\ ~ Contains(link, <<" ">>) )

\* LinkChecker.extract_links
extract_links(content) ==
  SelectSeq(FindLinks(content, 1), LAMBDA m : KeepLink(m.link))

\* LinkChecker.is_external_link
is_external_link(link) ==
  StartsWith(link, HTTP_PREFIX) \/ StartsWith(link, HTTPS_PREFIX)

\* the extension rule of resolve_relative_path
WithExtension(target_path) ==
  IF ~ EndsWith(target_path, MD) /\ ~ EndsWith(target_path, <<"/">>)
  THEN target_path \o MD
  ELSE IF EndsWith(target_path, <<"/">>)
  THEN target_path \o INDEX_MD
  ELSE target_path

\* LinkChecker.resolve_relative_path: the components, below the docs root, of the
\* path returned for a link of the file file_path
resolve_relative_path(file_path, link0) ==
  LET link == Split(link0, "#")[1]
  IN IF StartsWith(link, <<"/">>)
     THEN Components(WithExtension(LStripSet(link, {"/"})))
     ELSE Resolve(<<>>, Front(Components(file_path)) \o Components(WithExtension(link)))

\* no finding (the None that check_internal_link and check_external_link return)
None == [type |-> "none"]

Finding(type, file_path, link, link_text, error) ==
  [type |-> type, file |-> file_path, link |-> link, text |-> link_text, error |-> error]

\* check_internal_link without the try of lines 147-166: the error of reading the
\* target file is not caught
check_internal_link_unguarded(fs, unreadable, file_path, link, link_text) ==
  LET parts == Split(link, "#")
      target_path == parts[1]
      anchor == IF Len(parts) > 1 THEN parts[2] ELSE <<>>
      resolved_path == resolve_relative_path(file_path, target_path)
      resolved_file == PathOf(Resolve(<<>>, resolved_path))
  IN IF target_path = <<>>
     THEN IF anchor # <<>> /\ anchor \notin extract_headings(FileContent(file_path))
          THEN Finding("anchor", file_path, link, link_text, "anchor not found in file")
          ELSE None
     ELSE IF ~ PathExists(fs, resolved_path)
     THEN Finding("file", file_path, link, link_text, "file not found")
     ELSE IF anchor # <<>>
     THEN IF resolved_file \in unreadable \/ ~ IsFile(fs, Components(resolved_file))
          THEN [type |-> "crash"]
          ELSE IF anchor \notin extract_headings(FileContent(resolved_file))
          THEN Finding("anchor", file_path, link, link_text, "anchor not found in target")
          ELSE None
     ELSE None

\* LinkChecker.check_internal_link on the tree fs whose files in unreadable cannot
\* be read or decoded; "crash" is the exception of the unguarded open of line 118
check_internal_link(fs, unreadable, file_path, link, link_text) ==
  LET parts == Split(link, "#")
      target_path == parts[1]
      anchor == IF Len(parts) > 1 THEN parts[2] ELSE <<>>
      resolved_path == resolve_relative_path(file_path, target_path)
      resolved_file == PathOf(Resolve(<<>>, resolved_path))
  IN IF target_path = <<>>
     THEN IF anchor # <<>>
          THEN IF file_path \in unreadable
               THEN [type |-> "crash"]
               ELSE IF anchor \notin extract_headings(FileContent(file_path))
               THEN Finding("anchor", file_path, link, link_text, "anchor not found in file")
               ELSE None
          ELSE None
     ELSE IF ~ PathExists(fs, resolved_path)
     THEN Finding("file", file_path, link, link_text, "file not found")
     ELSE IF anchor # <<>>
     THEN IF resolved_file \in unreadable \/ ~ IsFile(fs, Components(resolved_file))
          THEN Finding("file", file_path, link, link_text, "error reading file")
          ELSE IF anchor \notin extract_headings(FileContent(resolved_file))
          THEN Finding("anchor", file_path, link, link_text, "anchor not found in target")
          ELSE None
     ELSE None

\* the response of urllib.request.urlopen: status 200, another status that
\* urlopen returns (204), or an exception (HTTPError, URLError, timeout)
Responses == {"200", "204", "error"}

\* dict[key] = value
DictSet(d, key, value) ==
  [k \in DOMAIN d \cup {key} |-> IF k = key THEN value ELSE d[k]]

\* check_external_link without the test of line 173: the cache is never consulted
check_external_link_uncached(cache, file_path, link, link_text, response) ==
  IF response = "200"
  THEN [result |-> None, cache |-> DictSet(cache, link, TRUE), requested |-> TRUE]
  ELSE [result |-> Finding("external", file_path, link, link_text, "network error"),
        cache |-> DictSet(cache, link, FALSE), requested |-> TRUE]

\* LinkChecker.check_external_link with the cache checked_external_urls; response
\* is what urlopen answers if it is called.  Returns the finding, the cache
\* afterwards and whether a network request was made.
check_external_link(cache, file_path, link, link_text, response) ==
  IF link \in DOMAIN cache
  THEN [result |-> IF ~ cache[link]
                   THEN Finding("external", file_path, link, link_text, "cached result")
                   ELSE None,
        cache |-> cache,
        requested |-> FALSE]
  ELSE IF response = "200"
  THEN [result |-> None, cache |-> DictSet(cache, link, TRUE), requested |-> TRUE]
  ELSE IF response = "204"
  THEN [result |-> Finding("external", file_path, link, link_text, "http status"),
        cache |-> DictSet(cache, link, FALSE), requested |-> TRUE]
  ELSE [result |-> Finding("external", file_path, link, link_text, "network error"),
        cache |-> DictSet(cache, link, FALSE), requested |-> TRUE]

\* a Python dict display {k1: v1, k2: v2, ...}: a later item with the key of an
\* earlier one replaces its value
RECURSIVE DictDisplay(_)
DictDisplay(items) ==
  IF items = <<>> THEN <<>>
  ELSE LET last == items[Len(items)]
       IN DictSet(DictDisplay(Front(items)), last[1], last[2])

\* Python values of the result dict, tagged with their type
IntVal(n) == [kind |-> "int", v |-> n]

ListVal(l) == [kind |-> "list", v |-> l]

DictVal(d) == [kind |-> "dict", v |-> d]

\* the dict check_all_files returns (lines 252-265)
check_all_files_result(markdown_files, all_dead, with_issues) ==
  DictDisplay(<<
    <<"total_files", IntVal(Cardinality(markdown_files))>>,
    <<"files_with_issues", IntVal(Cardinality(DOMAIN with_issues))>>,
    <<"total_dead_links", IntVal(Len(all_dead))>>,
    <<"file_errors", ListVal(SelectSeq(all_dead, LAMBDA l : l.type = "file"))>>,
    <<"anchor_errors", ListVal(SelectSeq(all_dead, LAMBDA l : l.type = "anchor"))>>,
    <<"external_errors", ListVal(SelectSeq(all_dead, LAMBDA l : l.type = "external"))>>,
    <<"files_with_issues", DictVal(with_issues)>> >>)

\* the values generate_report formats into the lines of its Summary section
generate_report(res) ==
  [total_files_scanned |-> res["total_files"],
   files_with_issues |-> res["files_with_issues"],
   total_dead_links |-> res["total_dead_links"],
   missing_files |-> IntVal(Len(res["file_errors"].v)),
   invalid_anchors |-> IntVal(Len(res["anchor_errors"].v)),
   external_link_errors |-> IntVal(Len(res["external_errors"].v))]

----------------------------------------------------------------------------
(* check_anchors.py: check_anchor_links *)

\* line 47: url_path = '/' + str(md_file.relative_to(docs_dir)).replace('.md', '')
url_path(path) == <<"/">> \o RemoveAll(path, MD)

\* the match of  \[([^\]]+)\]\(([^)]+#[^)]+)\)  that starts at position p
AnchorLinkMatch(s, p) ==
  LET close == FirstAt(s, p + 1, "]")
      paren == IF close = 0 THEN 0 ELSE FirstAt(s, close + 2, ")")
      inside == IF paren = 0 THEN <<>> ELSE SubSeq(s, close + 2, paren - 1)
      ok == /\ s[p] = "["
            /\ close > p + 1
            /\ close + 1 <= Len(s)
            /\ s[close + 1] = "("
            /\ paren # 0
            /\ \E k \in 2..(Len(inside) - 1) : inside[k] = "#"
  IN [ok |-> ok, stop |-> paren,
      text |-> IF ok THEN SubSeq(s, p + 1, close - 1) ELSE <<>>,
      link |-> IF ok THEN inside ELSE <<>>]

\* re.findall(link_pattern, content), line 57: the matches from position p on;
\* a match starts at a '[', so the scan goes from one '[' to the next
RECURSIVE FindAnchorLinks(_, _)
FindAnchorLinks(s, p) ==
  LET q == FirstAt(s, p, "[")
  IN IF q = 0 THEN <<>>
     ELSE LET m == AnchorLinkMatch(s, q)
          IN IF m.ok
             THEN <<[text |-> m.text, link |-> m.link]>> \o FindAnchorLinks(s, m.stop + 1)
             ELSE FindAnchorLinks(s, q + 1)

\* lines 59-87 for one match: the entry appended to broken_anchors, or None
check_anchor_link(map, md_file, text, link) ==
  IF StartsWith(link, HTTP_PREFIX) \/ StartsWith(link, HTTPS_PREFIX) THEN None
  ELSE IF ~ Contains(link, <<"#">>) THEN None
  ELSE LET link_path == Split1(link, "#")[1]
           anchor == Split1(link, "#")[2]
       IN IF link_path \in DOMAIN map
          THEN IF \A i \in 1..Len(map[link_path]) : map[link_path][i] # anchor
               THEN [type |-> "broken", file |-> md_file, text |-> text, link |-> link,
                     expected_anchor |-> anchor, available_anchors |-> map[link_path]]
               ELSE None
          ELSE [type |-> "broken", file |-> md_file, text |-> text, link |-> link,
                expected_anchor |-> anchor, available_anchors |-> <<>>]

\* lines 51-87 for one file: the entries its links append to broken_anchors
check_anchor_file(map, md_file) ==
  LET matches == FindAnchorLinks(FileContent(md_file), 1)
      found == [i \in 1..Len(matches) |->
                  check_anchor_link(map, md_file, matches[i].text, matches[i].link)]
  IN SelectSeq(found, LAMBDA b : b # None)

\* lines 41-48: the anchor map after the files of the list done, in its order
RECURSIVE build_anchor_map(_)
build_anchor_map(done) ==
  IF done = <<>> THEN <<>>
  ELSE DictSet(build_anchor_map(Front(done)), url_path(done[Len(done)]),
               file_anchors(FileContent(done[Len(done)])))

\* line 113: exit(main()), the exit status of a process being one byte
anchors_exit_status(n) == n % 256

----------------------------------------------------------------------------
(* State *)

VARIABLES
  \* the heading scanners applied to one line of text
  hline,       \* the line of text handed to the scanners
  headings,    \* check_links.py: the set extract_headings returns
  anchors,     \* check_anchors.py: the list of anchors registered
  pcS,         \* "input" before the scan, "scanned" after, "off" in other runs
  \* the documentation tree, unchanged during a run
  docs,        \* whether the docs root directory exists
  files,       \* the paths of the files below the docs root
  unreadable,  \* the markdown files that cannot be read or decoded
  \* a run of check_links.py
  pc,                     \* where the run is
  scanned,                \* the files check_all_files has passed to check_file
  cur,                    \* check_all_files: file_path of the current iteration
  links,                  \* check_file: links
  li,                     \* check_file: index in links of the next link
  checked,                \* check_file: the (link_text, link) checked last
  result,                 \* check_file: result of the link checked last
  dead_links,             \* check_file: dead_links
  all_dead_links,         \* check_all_files: all_dead_links
  files_with_issues,      \* check_all_files: files_with_issues
  checked_external_urls,  \* LinkChecker.checked_external_urls
  requests,               \* per URL, the calls of urlopen so far
  responses,              \* per URL, what urlopen answered to the first call
  results,                \* main: results
  report,                 \* main: the values of the report's Summary
  exit_status,            \* the exit status of the process, -1 while it runs
  calls,                  \* the calls of check_external_link made so far
  \* a run of check_anchors.py
  order,                  \* the files the first loop has done, in rglob's order
  ai,                     \* the index in order of the second loop's next file
  anchor_map,             \* check_anchor_links: anchor_map
  broken_anchors,         \* check_anchor_links: broken_anchors
  \* the exit status of either script
  script,                 \* the script that runs
  nfound                  \* the length of its list of findings

varsS == <<hline, headings, anchors, pcS>>

varsT == <<docs, files, unreadable>>

varsX == <<checked, result, checked_external_urls, requests, responses>>

varsL == <<pc, scanned, cur, links, li, dead_links, all_dead_links,
           files_with_issues, results, report, exit_status>>

varsA == <<order, ai, anchor_map, broken_anchors>>

varsE == <<calls, script, nfound>>

vars == <<varsS, varsT, varsX, varsL, varsA, varsE>>

SlugOff == hline = <<>> /\ headings = {} /\ anchors = <<>> /\ pcS = "off"

NoCheck == [text |-> <<>>, link |-> <<>>, file |-> <<>>]

\* LinkChecker.__init__, and main before it starts
LinksInit ==
  /\ checked = NoCheck
  /\ result = None
  /\ checked_external_urls = <<>>
  /\ requests = <<>>
  /\ responses = <<>>
  /\ scanned = {}
  /\ cur = <<>>
  /\ links = <<>>
  /\ li = 1
  /\ dead_links = <<>>
  /\ all_dead_links = <<>>
  /\ files_with_issues = <<>>
  /\ results = <<>>
  /\ report = <<>>
  /\ exit_status = -1
  /\ calls = 0
  /\ order = <<>>
  /\ ai = 1
  /\ anchor_map = <<>>
  /\ broken_anchors = <<>>
  /\ script = "none"
  /\ nfound = 0

----------------------------------------------------------------------------
(* The heading scanners on every short line *)

MaxHeadingLen == 4

HeadingAlphabet == {"#", " ", "a", "B", "-", "&", "(", BQ}

HeadingLines == UNION { [1..n -> HeadingAlphabet] : n \in 0..MaxHeadingLen }

InitSlug ==
  /\ hline \in HeadingLines
  /\ headings = {}
  /\ anchors = <<>>
  /\ pcS = "input"
  /\ docs = FALSE /\ files = {} /\ unreadable = {}
  /\ pc = "off"
  /\ LinksInit

\* both scanners run on a file whose content is the line hline
ScanHeadings ==
  /\ pcS = "input"
  /\ headings' = extract_headings(hline)
  /\ anchors' = file_anchors(hline)
  /\ pcS' = "scanned"
  /\ UNCHANGED <<hline, varsT, varsX, varsL, varsA, varsE>>

NextSlug == ScanHeadings

SpecSlug == InitSlug /\ [][NextSlug]_vars

----------------------------------------------------------------------------
(* A run of check_links.py over a tree *)

\* at most this many files of a tree cannot be read
MaxUnreadable == 1

Trees == SUBSET AllPaths

InitTree ==
  /\ docs \in BOOLEAN
  /\ files \in (IF docs THEN Trees ELSE {{}})
  /\ unreadable \in { u \in SUBSET find_markdown_files(files) : Cardinality(u) <= MaxUnreadable }

Init ==
  /\ SlugOff
  /\ InitTree
  /\ pc = "main"
  /\ LinksInit

\* main, lines 318-325: the docs root is tested, then check_all_files starts
Main ==
  /\ pc = "main"
  /\ IF docs
     THEN pc' = "scan" /\ UNCHANGED exit_status
     ELSE pc' = "exit" /\ exit_status' = 1
  /\ UNCHANGED <<varsS, varsT, varsX, varsA, varsE, scanned, cur, links, li, dead_links,
                 all_dead_links, files_with_issues, results, report>>

\* check_all_files takes the next file of markdown_files (rglob gives them in
\* the order of the directory listing) and check_file reads it, lines 244-221
OpenFile ==
  /\ pc = "scan"
  /\ \E f \in find_markdown_files(files) \ scanned :
       /\ cur' = f
       /\ links' = IF f \in unreadable THEN <<>> ELSE extract_links(FileContent(f))
  /\ li' = 1
  /\ dead_links' = <<>>
  /\ pc' = "file"
  /\ UNCHANGED <<varsS, varsT, varsX, varsA, varsE, scanned, all_dead_links, files_with_issues,
                 results, report, exit_status>>

\* lines 224-225: check_external_link is called and answers; requests and
\* responses record the calls of urlopen, line 187
ExternalCheck(file_path, link, link_text, response) ==
  LET r == check_external_link(checked_external_urls, file_path, link, link_text, response)
  IN /\ result' = r.result
     /\ checked_external_urls' = r.cache
     /\ requests' =
          IF r.requested
          THEN DictSet(requests, link,
                       IF link \in DOMAIN requests THEN requests[link] + 1 ELSE 1)
          ELSE requests
     /\ responses' =
          IF r.requested /\ link \notin DOMAIN responses
          THEN DictSet(responses, link, response)
          ELSE responses

\* check_file, lines 223-230: one iteration of the loop over links
CheckLink ==
  /\ pc = "file"
  /\ li <= Len(links)
  /\ LET link == links[li].link
         link_text == links[li].text
     IN /\ checked' = [text |-> link_text, link |-> link, file |-> cur]
        /\ IF is_external_link(link)
           THEN \E response \in Responses : ExternalCheck(cur, link, link_text, response)
           ELSE /\ result' = check_internal_link(files, unreadable, cur, link, link_text)
                /\ UNCHANGED <<checked_external_urls, requests, responses>>
  /\ IF result'.type = "crash"
     THEN pc' = "exit" /\ exit_status' = 1 /\ UNCHANGED <<li, dead_links>>
     ELSE /\ dead_links' = IF result' # None THEN Append(dead_links, result') ELSE dead_links
          /\ li' = li + 1
          /\ UNCHANGED <<pc, exit_status>>
  /\ UNCHANGED <<varsS, varsT, varsA, varsE, scanned, cur, links, all_dead_links, files_with_issues,
                 results, report>>

\* check_file returns dead_links and check_all_files records them, lines 232-250
EndFile ==
  /\ pc = "file"
  /\ li > Len(links)
  /\ scanned' = scanned \cup {cur}
  /\ IF dead_links # <<>>
     THEN /\ files_with_issues' = DictSet(files_with_issues, cur, dead_links)
          /\ all_dead_links' = all_dead_links \o dead_links
     ELSE UNCHANGED <<files_with_issues, all_dead_links>>
  /\ pc' = "scan"
  /\ UNCHANGED <<varsS, varsT, varsX, varsA, varsE, cur, links, li, dead_links, results, report,
                 exit_status>>

\* check_all_files after its loop, lines 252-265
Categorize ==
  /\ pc = "scan"
  /\ scanned = find_markdown_files(files)
  /\ results' = check_all_files_result(find_markdown_files(files), all_dead_links,
                                       files_with_issues)
  /\ pc' = "report"
  /\ UNCHANGED <<varsS, varsT, varsX, varsA, varsE, scanned, cur, links, li, dead_links,
                 all_dead_links, files_with_issues, report, exit_status>>

\* main, lines 327-344: the report is generated and the process exits
ReportAndExit ==
  /\ pc = "report"
  /\ report' = generate_report(results)
  /\ exit_status' = IF results["total_dead_links"].v > 0 THEN 1 ELSE 0
  /\ pc' = "exit"
  /\ UNCHANGED <<varsS, varsT, varsX, varsA, varsE, scanned, cur, links, li, dead_links,
                 all_dead_links, files_with_issues, results>>

Next == Main \/ OpenFile \/ CheckLink \/ EndFile \/ Categorize \/ ReportAndExit

Spec == Init /\ [][Next]_vars

----------------------------------------------------------------------------
(* Any sequence of calls of check_external_link on one LinkChecker *)

MaxCalls == 4

URL_X == <<"h", "t", "t", "p", "s", ":", "/", "/", "x", ".", "i", "o">>

URL_Y == <<"h", "t", "t", "p", ":", "/", "/", "y", ".", "i", "o">>

ExtUrls == {URL_X, URL_Y}

InitExt ==
  /\ SlugOff
  /\ docs = TRUE /\ files = MdPaths /\ unreadable = {}
  /\ pc = "external"
  /\ LinksInit

\* check_external_link(file_path, link, link_text) for any file and any URL
ExtCall ==
  /\ pc = "external"
  /\ calls < MaxCalls
  /\ \E f \in MdPaths, link \in ExtUrls, response \in Responses :
       /\ checked' = [text |-> <<"e">>, link |-> link, file |-> f]
       /\ ExternalCheck(f, link, <<"e">>, response)
  /\ calls' = calls + 1
  /\ UNCHANGED <<varsS, varsT, varsL, varsA, script, nfound>>

NextExt == ExtCall

SpecExt == InitExt /\ [][NextExt]_vars

----------------------------------------------------------------------------
(* A run of check_anchors.py over a tree *)

InitAnchors ==
  /\ SlugOff
  /\ InitTree
  /\ pc = "build"
  /\ LinksInit

\* one iteration of the first loop, lines 42-48; a file that cannot be decoded
\* raises in extract_headers_from_file and the traceback ends the process
BuildMap ==
  /\ pc = "build"
  /\ \E f \in find_markdown_files(files) \ {order[i] : i \in 1..Len(order)} :
       IF f \in unreadable
       THEN /\ pc' = "exit" /\ exit_status' = 1
            /\ UNCHANGED <<order, anchor_map>>
       ELSE /\ order' = Append(order, f)
            /\ anchor_map' = build_anchor_map(order')
            /\ UNCHANGED <<pc, exit_status>>
  /\ UNCHANGED <<varsS, varsT, varsX, varsE, ai, broken_anchors, scanned, cur, links, li,
                 dead_links, all_dead_links, files_with_issues, results, report>>

\* the first loop is over, line 50
StartCheck ==
  /\ pc = "build"
  /\ {order[i] : i \in 1..Len(order)} = find_markdown_files(files)
  /\ pc' = "check"
  /\ UNCHANGED <<varsS, varsT, varsX, varsE, varsA, scanned, cur, links, li, dead_links,
                 all_dead_links, files_with_issues, results, report, exit_status>>

\* one iteration of the second loop, lines 51-87
CheckAnchorFile ==
  /\ pc = "check"
  /\ ai <= Len(order)
  /\ broken_anchors' = broken_anchors \o check_anchor_file(anchor_map, order[ai])
  /\ ai' = ai + 1
  /\ UNCHANGED <<varsS, varsT, varsX, varsE, varsL, order, anchor_map>>

\* check_anchor_links returns and main exits, lines 89-113
AnchorsMain ==
  /\ pc = "check"
  /\ ai > Len(order)
  /\ exit_status' = anchors_exit_status(Len(broken_anchors))
  /\ pc' = "exit"
  /\ UNCHANGED <<varsS, varsT, varsX, varsE, varsA, scanned, cur, links, li, dead_links,
                 all_dead_links, files_with_issues, results, report>>

NextAnchors == BuildMap \/ StartCheck \/ CheckAnchorFile \/ AnchorsMain

SpecAnchors == InitAnchors /\ [][NextAnchors]_vars

----------------------------------------------------------------------------
(* The exit status of the two scripts for every number of findings *)

MaxFindings == 257

InitExitStatus ==
  /\ SlugOff
  /\ docs \in BOOLEAN /\ files = {} /\ unreadable = {}
  /\ pc = "run"
  /\ checked = NoCheck /\ result = None /\ checked_external_urls = <<>>
  /\ requests = <<>> /\ responses = <<>>
  /\ scanned = {} /\ cur = <<>> /\ links = <<>> /\ li = 1 /\ dead_links = <<>>
  /\ all_dead_links = <<>> /\ files_with_issues = <<>> /\ results = <<>>
  /\ report = <<>> /\ exit_status = -1 /\ calls = 0
  /\ order = <<>> /\ ai = 1 /\ anchor_map = <<>> /\ broken_anchors = <<>>
  /\ script \in {"check_links", "check_anchors"}
  /\ nfound = 0

\* one more link is reported: dead_links.append(result), check_links.py line 230,
\* or broken_anchors.append(...), check_anchors.py lines 72 and 81.  check_links.py
\* has left at line 322 when there is no docs root, and rglob finds no file then.
ReportLink ==
  /\ pc = "run"
  /\ docs
  /\ nfound < MaxFindings
  /\ nfound' = nfound + 1
  /\ UNCHANGED <<varsS, varsT, varsX, varsL, varsA, calls, script>>

\* check_links.py: main, lines 320-322 and 340-344
LinksExit ==
  /\ pc = "run"
  /\ script = "check_links"
  /\ exit_status' = IF ~ docs THEN 1 ELSE IF nfound > 0 THEN 1 ELSE 0
  /\ pc' = "exit"
  /\ UNCHANGED <<varsS, varsT, varsX, varsA, varsE, scanned, cur, links, li, dead_links,
                 all_dead_links, files_with_issues, results, report>>

\* check_anchors.py: main returns len(broken_anchors), line 110, and line 113
\* exits with it
AnchorsExit ==
  /\ pc = "run"
  /\ script = "check_anchors"
  /\ exit_status' = anchors_exit_status(nfound)
  /\ pc' = "exit"
  /\ UNCHANGED <<varsS, varsT, varsX, varsA, varsE, scanned, cur, links, li, dead_links,
                 all_dead_links, files_with_issues, results, report>>

NextExit == ReportLink \/ LinksExit \/ AnchorsExit

SpecExit == InitExitStatus /\ [][NextExit]_vars

----------------------------------------------------------------------------
(* Properties *)

\* the link checked last by check_file is an internal one
InternalChecked == checked # NoCheck /\ ~ is_external_link(checked.link)

\* the path part and the anchor of the link checked last
CheckedPath == Split(checked.link, "#")[1]

CheckedAnchor ==
  IF Len(Split(checked.link, "#")) > 1 THEN Split(checked.link, "#")[2] ELSE <<>>

\* the file the link checked last points to: the file of the link itself for a
\* bare '#anchor', else the path resolve_relative_path gives
CheckedTarget ==
  IF CheckedPath = <<>> THEN checked.file
  ELSE PathOf(Resolve(<<>>, resolve_relative_path(checked.file, CheckedPath)))

\* the canonical slugs (header_to_anchor) of the heading lines of a file
CanonicalSlugs(path) ==
  LET a == file_anchors(FileContent(path)) IN { a[i] : i \in 1..Len(a) }

WellFormedSlug(a) ==
  /\ \A i \in 1..Len(a) : a[i] \in AlnumLower \cup {"-"}
  /\ a # <<>> => a[1] # "-" /\ a[Len(a)] # "-"

\* C1: every URL handed to check_external_link has caused exactly one network
\* request, its cache entry is the verdict of that one request (200 or not), and
\* the call made last returned an 'external' finding for its file and link if and
\* only if that request failed.
ExternalDedup ==
  /\ DOMAIN requests = DOMAIN checked_external_urls
  /\ DOMAIN responses = DOMAIN checked_external_urls
  /\ \A u \in DOMAIN requests : requests[u] = 1
  /\ \A u \in DOMAIN checked_external_urls :
       checked_external_urls[u] = (responses[u] = "200")
  /\ is_external_link(checked.link) =>
       /\ checked.link \in DOMAIN responses
       /\ (result.type = "external") <=> (responses[checked.link] # "200")
       /\ (result = None) <=> (responses[checked.link] = "200")
       /\ result # None => result.file = checked.file /\ result.link = checked.link

\* a URL met again after its one request failed is reported from the cache
ExternalDedupWitness ==
  /\ calls >= 2
  /\ is_external_link(checked.link)
  /\ result.type = "external"
  /\ result.error = "cached result"
  /\ requests[checked.link] = 1

\* C2: an internal link whose target file exists (and can be read) and whose
\* anchor, if it has one, is the canonical slug of a heading line of that file
\* gets no finding.
ValidLinkNoFinding ==
  ( /\ InternalChecked
    /\ CheckedTarget \notin unreadable
    /\ CheckedPath = <<>> \/ PathExists(files, resolve_relative_path(checked.file, CheckedPath))
    /\ CheckedAnchor = <<>> \/ CheckedAnchor \in CanonicalSlugs(CheckedTarget) )
  => result = None

\* C3: every anchor either heading scanner registers for a heading line holds only
\* characters of [a-z0-9-] and neither starts nor ends with a hyphen.
AnchorsWellFormed ==
  pcS = "scanned" =>
    /\ \A a \in headings : WellFormedSlug(a)
    /\ \A i \in 1..Len(anchors) : WellFormedSlug(anchors[i])

\* C4: either script exits with a nonzero status when the docs root is absent,
\* and otherwise with 0 exactly when it reported no finding.
ExitStatusTellsFindings ==
  pc = "exit" =>
    IF ~ docs THEN exit_status # 0
    ELSE (exit_status = 0) <=> (nfound = 0)

\* a link with an anchor whose target file exists and cannot be read (the link
\* checked last in the file file_path)
ReadFailure(file_path, link) ==
  LET parts == Split(link, "#")
      resolved == resolve_relative_path(file_path, parts[1])
  IN /\ ~ is_external_link(link)
     /\ parts[1] # <<>>
     /\ Len(parts) > 1 /\ parts[2] # <<>>
     /\ PathExists(files, resolved)
     /\ PathOf(Resolve(<<>>, resolved)) \in unreadable

SummaryValuesAreCounts ==
  (pc = "exit" /\ docs /\ result.type # "crash") =>
    /\ report.total_files_scanned = IntVal(Cardinality(find_markdown_files(files)))
    /\ report.files_with_issues.kind = "int"
    /\ report.files_with_issues.v =
         Cardinality({ all_dead_links[i].file : i \in 1..Len(all_dead_links) })
    /\ report.total_dead_links = IntVal(Len(all_dead_links))
    /\ report.total_dead_links.v =
         report.missing_files.v + report.invalid_anchors.v + report.external_link_errors.v

\* the index document of the directory a link with a trailing slash names
IndexDocument(file_path, target_path) ==
  LET dir == IF StartsWith(target_path, <<"/">>)
             THEN Resolve(<<>>, Components(target_path))
             ELSE Resolve(<<>>, Front(Components(file_path)) \o Components(target_path))
  IN Append(dir, INDEX_MD)

\* C7: a link whose path part ends with '/' gets a MissingFile finding if and
\* only if the index.md of that directory is absent.
DirectoryLinkMeansIndex ==
  (InternalChecked /\ CheckedPath # <<>> /\ EndsWith(CheckedPath, <<"/">>)) =>
    ((result.type = "file") <=> ~ IsFile(files, IndexDocument(checked.file, CheckedPath)))

\* the file a link path names when it is taken as written
ExactFile(file_path, target_path) ==
  IF StartsWith(target_path, <<"/">>)
  THEN Resolve(<<>>, Components(target_path))
  ELSE Resolve(<<>>, Front(Components(file_path)) \o Components(target_path))

\* the last component of the path has an extension
HasExtension(target_path) ==
  LET comps == Components(target_path)
  IN /\ comps # <<>>
     /\ \E k \in 2..Len(comps[Len(comps)]) : comps[Len(comps)][k] = "."

\* C8: a link path with no trailing slash that already carries an extension is
\* looked up as written: when that file exists no 'file not found' is reported.
ExtensionKept ==
  ( /\ InternalChecked
    /\ CheckedPath # <<>>
    /\ ~ EndsWith(CheckedPath, <<"/">>)
    /\ HasExtension(CheckedPath)
    /\ IsFile(files, ExactFile(checked.file, CheckedPath)) )
  => ~ (result.type = "file" /\ result.error = "file not found")

\* broken_anchors holds an entry for the link of the file
Flagged(broken, md_file, link) ==
  \E i \in 1..Len(broken) : broken[i].file = md_file /\ broken[i].link = link

\* the inline links [text](#anchor) of a file
SameFileLinks(md_file) ==
  LET m == FindLinks(FileContent(md_file), 1)
  IN { m[i].link : i \in { k \in 1..Len(m) :
                            Len(m[k].link) > 1 /\ Split(m[k].link, "#")[1] = <<>> } }

\* C9: when check_anchors.py has finished, a '#anchor' link of a file is in
\* broken_anchors if and only if the anchor is not an anchor of that same file.
SameFileAnchorChecked ==
  (pc = "exit" /\ unreadable = {}) =>
    \A f \in find_markdown_files(files) : \A link \in SameFileLinks(f) :
      Flagged(broken_anchors, f, link) <=> (Split1(link, "#")[2] \notin CanonicalSlugs(f))

\* the orders rglob may list a set of files in
Orders(S) ==
  { o \in [1..Cardinality(S) -> S] : \A i, j \in 1..Cardinality(S) : o[i] = o[j] => i = j }

\* check_anchor_links run with the files listed in the order o
RECURSIVE BrokenFrom(_, _, _)
BrokenFrom(map, o, i) ==
  IF i > Len(o) THEN <<>>
  ELSE check_anchor_file(map, o[i]) \o BrokenFrom(map, o, i + 1)

FlaggedSet(broken) == { <<broken[i].file, broken[i].link>> : i \in 1..Len(broken) }

\* C10: the links check_anchors.py flags are the same for every order in which
\* the files are listed.
FlaggedSameInEveryOrder ==
  (pc = "exit" /\ unreadable = {}) =>
    \A o \in Orders(find_markdown_files(files)) :
      FlaggedSet(BrokenFrom(build_anchor_map(o), o, 1)) = FlaggedSet(broken_anchors)

====
